---- MODULE Spec2Model ----
(***************************************************************************)
(* Model of the inventory CLI: the SQLite-backed Store (store.py), the      *)
(* natural-language command parser (agent.py) and the agent command's      *)
(* dispatch (cli.py).                                                      *)
(*                                                                         *)
(* Python strings that the parser takes apart (command text, sku, name)    *)
(* are sequences of one-character strings.  Optional values are <<>> for   *)
(* None and <<v>> for a present value v.  A price is a number of           *)
(* hundredths (12.5 is 1250), so that every decimal of the model with at   *)
(* most two fractional digits is an exact integer.                         *)
(***************************************************************************)
EXTENDS Integers, Sequences, FiniteSets, TLC

VARIABLES items, now, last, text, remote, pc, action

vars == <<items, now, last, text, remote, pc, action>>

(***************************************************************************)
(* Bounds of the model.                                                    *)
(***************************************************************************)
MaxQty == 1
MaxClock == 1

(***************************************************************************)
(* Strings.                                                                *)
(***************************************************************************)
None == <<>>
Some(v) == <<v>>

S_B1 == <<"B", "1">>
S_b1 == <<"b", "1">>
S_Pen == <<"P", "e", "n">>
S_Ink == <<"I", "n", "k">>

Skus == {S_B1, S_b1}
Names == {S_Pen, S_Ink}
QtyArgs == (0 - 1) .. MaxQty

\* name, quantity and price of the add and upsert calls: valid ones, one with
\* a negative quantity and one with a negative price
ItemArgs ==
    {<<S_Pen, MaxQty, 150>>, <<S_Ink, 0, 0>>, <<S_Pen, 0 - 1, 150>>, <<S_Ink, MaxQty, 0 - 50>>}

\* name, quantity and price of the update calls: nothing, one field, all
\* fields, and negative values
UpdateArgs ==
    {<<None, None, None>>,
     <<Some(S_Ink), None, None>>,
     <<None, Some(0), None>>,
     <<None, Some(0 - 1), None>>,
     <<None, None, Some(0)>>,
     <<None, None, Some(0 - 50)>>,
     <<Some(S_Pen), Some(MaxQty), Some(150)>>,
     <<None, Some(0 - 1), Some(0 - 50)>>}

(***************************************************************************)
(* Exceptions: the Python class and which raise statement it came from.    *)
(***************************************************************************)
NoExc == [cls |-> "none", msg |-> "none"]
DuplicateKeyError == [cls |-> "ValueError", msg |-> "already exists"]
NotFoundError == [cls |-> "ValueError", msg |-> "not found"]
InsufficientStockError == [cls |-> "ValueError", msg |-> "cannot subtract"]
QuantityValidationError == [cls |-> "ValueError", msg |-> "quantity must be >= 0"]
PriceValidationError == [cls |-> "ValueError", msg |-> "price must be >= 0"]
IntegrityError == [cls |-> "IntegrityError", msg |-> "CHECK constraint failed"]

(***************************************************************************)
(* The items table.  A database is a function from the skus of its rows    *)
(* (the primary key) to the other columns.                                 *)
(***************************************************************************)
EmptyDb == [k \in {} |-> None]

Row(name, quantity, price, updated_at) ==
    [name |-> name, quantity |-> quantity, price |-> price, updated_at |-> updated_at]

\* A schema without its CHECK constraints
SCHEMA_unchecked(row) == TRUE

\* CHECK(quantity >= 0), CHECK(price >= 0) of the schema
SCHEMA(row) == row.quantity >= 0 /\ row.price >= 0

Put(db, sku, row) == [k \in (DOMAIN db) \cup {sku} |-> IF k = sku THEN row ELSE db[k]]

Remove(db, sku) == [k \in (DOMAIN db) \ {sku} |-> db[k]]

\* What a Store method leaves behind: the table, the exception raised (or
\* NoExc) and the value returned (None when the method returns nothing).
Outcome(db, exc, ret) == [db |-> db, exc |-> exc, ret |-> ret]

\* An INSERT or UPDATE inside with self._conn(): a row violating a CHECK
\* raises IntegrityError and the transaction is rolled back.
Execute(db, sku, row, ret) ==
    IF SCHEMA(row) THEN Outcome(Put(db, sku, row), NoExc, ret)
    ELSE Outcome(db, IntegrityError, None)

\* INSERT OR REPLACE in place of the existence check
add_item_replace(db, t, sku, name, quantity, price) ==
    Execute(db, sku, Row(name, quantity, price, t), None)

add_item(db, t, sku, name, quantity, price) ==
    IF sku \in DOMAIN db THEN Outcome(db, DuplicateKeyError, None)
    ELSE Execute(db, sku, Row(name, quantity, price, t), None)

\* qty >= current in place of qty > current
subtract_quantity_ge(db, t, sku, qty) ==
    IF sku \notin DOMAIN db THEN Outcome(db, NotFoundError, None)
    ELSE LET current == db[sku].quantity
             new_q == current - qty
         IN  IF qty >= current THEN Outcome(db, InsufficientStockError, None)
             ELSE Execute(db, sku, [db[sku] EXCEPT !.quantity = new_q, !.updated_at = t],
                          Some(new_q))

subtract_quantity(db, t, sku, qty) ==
    IF sku \notin DOMAIN db THEN Outcome(db, NotFoundError, None)
    ELSE LET current == db[sku].quantity
             new_q == current - qty
         IN  IF qty > current THEN Outcome(db, InsufficientStockError, None)
             ELSE Execute(db, sku, [db[sku] EXCEPT !.quantity = new_q, !.updated_at = t],
                          Some(new_q))

\* update_item without its early return
update_item_touch(db, t, sku, name, quantity, price) ==
    IF sku \notin DOMAIN db THEN Outcome(db, NotFoundError, None)
    ELSE IF quantity # None /\ quantity[1] < 0 THEN Outcome(db, QuantityValidationError, None)
    ELSE IF price # None /\ price[1] < 0 THEN Outcome(db, PriceValidationError, None)
    ELSE Execute(db, sku,
                 [name |-> IF name # None THEN name[1] ELSE db[sku].name,
                  quantity |-> IF quantity # None THEN quantity[1] ELSE db[sku].quantity,
                  price |-> IF price # None THEN price[1] ELSE db[sku].price,
                  updated_at |-> t],
                 None)

update_item(db, t, sku, name, quantity, price) ==
    IF name = None /\ quantity = None /\ price = None THEN Outcome(db, NoExc, None)
    ELSE IF sku \notin DOMAIN db THEN Outcome(db, NotFoundError, None)
    ELSE IF quantity # None /\ quantity[1] < 0 THEN Outcome(db, QuantityValidationError, None)
    ELSE IF price # None /\ price[1] < 0 THEN Outcome(db, PriceValidationError, None)
    ELSE Execute(db, sku,
                 [name |-> IF name # None THEN name[1] ELSE db[sku].name,
                  quantity |-> IF quantity # None THEN quantity[1] ELSE db[sku].quantity,
                  price |-> IF price # None THEN price[1] ELSE db[sku].price,
                  updated_at |-> t],
                 None)

\* add_or_update without its except branch
add_or_update_insert_only(db, t, sku, name, quantity, price) ==
    add_item(db, t, sku, name, quantity, price)

add_or_update(db, t, sku, name, quantity, price) ==
    LET added == add_item(db, t, sku, name, quantity, price)
    IN  IF added.exc.cls = "ValueError"
        THEN update_item(db, t, sku, Some(name), Some(quantity), Some(price))
        ELSE added

delete_item(db, sku) ==
    IF sku \notin DOMAIN db THEN Outcome(db, NotFoundError, None)
    ELSE Outcome(Remove(db, sku), NoExc, None)

get_item(db, sku) == IF sku \in DOMAIN db THEN Some(db[sku]) ELSE None

(***************************************************************************)
(* Python string operations on sequences of characters.                    *)
(***************************************************************************)
LOWER == <<"a", "b", "c", "d", "e", "f", "g", "h", "i", "j", "k", "l", "m",
           "n", "o", "p", "q", "r", "s", "t", "u", "v", "w", "x", "y", "z">>
UPPER == <<"A", "B", "C", "D", "E", "F", "G", "H", "I", "J", "K", "L", "M",
           "N", "O", "P", "Q", "R", "S", "T", "U", "V", "W", "X", "Y", "Z">>
DIGITS == <<"0", "1", "2", "3", "4", "5", "6", "7", "8", "9">>

Range(s) == {s[i] : i \in 1..Len(s)}
IndexOf(c, s) == CHOOSE i \in 1..Len(s) : s[i] = c

LowerChars == Range(LOWER)
UpperChars == Range(UPPER)
DigitChars == Range(DIGITS)
SpaceChars == {" ", "\n", "\t"}
\* \w of the re module, on the characters of the model
WordChars == LowerChars \cup UpperChars \cup DigitChars \cup {"_"}
\* the class [a-z0-9-_]
TokenChars == LowerChars \cup DigitChars \cup {"-", "_"}

LowerChar(c) == IF c \in UpperChars THEN LOWER[IndexOf(c, UPPER)] ELSE c
UpperChar(c) == IF c \in LowerChars THEN UPPER[IndexOf(c, LOWER)] ELSE c

\* str.lower, str.upper
lower(s) == [i \in 1..Len(s) |-> LowerChar(s[i])]
upper(s) == [i \in 1..Len(s) |-> UpperChar(s[i])]

\* str.title: a letter is upper-cased when the character before it is not a
\* letter, and lower-cased otherwise.
title(s) ==
    [i \in 1..Len(s) |->
        IF i = 1 \/ s[i - 1] \notin (LowerChars \cup UpperChars)
        THEN UpperChar(s[i]) ELSE LowerChar(s[i])]

\* str.strip
strip(s) ==
    LET keep == {i \in 1..Len(s) : s[i] \notin SpaceChars}
    IN  IF keep = {} THEN <<>>
        ELSE SubSeq(s, CHOOSE i \in keep : \A j \in keep : i <= j,
                       CHOOSE i \in keep : \A j \in keep : i >= j)

Min(S) == CHOOSE i \in S : \A j \in S : i <= j

\* p occurs in s at position i
OccursAt(s, p, i) ==
    /\ i + Len(p) - 1 <= Len(s)
    /\ \A j \in 1..Len(p) : s[i + j - 1] = p[j]

\* str.startswith, p in s
startswith(s, p) == OccursAt(s, p, 1)
contains(s, p) == \E i \in 1..Len(s) : OccursAt(s, p, i)

\* The end of the longest run of characters of class C that starts at i
\* (i - 1 when s[i] is not in C): a greedy C* of the re module.
RunEnd(s, i, C) ==
    LET stops == {j \in i..Len(s) : s[j] \notin C}
    IN  IF stops = {} THEN Len(s) ELSE Min(stops) - 1

\* int() of a run of decimal digits
RECURSIVE ToInt(_)
ToInt(ds) ==
    IF ds = <<>> THEN 0
    ELSE 10 * ToInt(SubSeq(ds, 1, Len(ds) - 1)) + (IndexOf(ds[Len(ds)], DIGITS) - 1)

\* float() of digits with an optional fraction, in hundredths.  Fractional
\* digits after the second are dropped (the texts of the model have none).
ToFloat(ip, fp) ==
    100 * ToInt(ip)
    + (IF Len(fp) >= 1 THEN 10 * (IndexOf(fp[1], DIGITS) - 1) ELSE 0)
    + (IF Len(fp) >= 2 THEN IndexOf(fp[2], DIGITS) - 1 ELSE 0)

(***************************************************************************)
(* The extraction primitives of agent.py.  Each returns None or Some(v).   *)
(***************************************************************************)
\* re.search(rf"{key}\s+([a-z0-9-_]+)", t)
_find_after(t, key) ==
    LET hits == {i \in 1..Len(t) :
                    /\ OccursAt(t, key, i)
                    /\ RunEnd(t, i + Len(key), SpaceChars) >= i + Len(key)
                    /\ LET g == RunEnd(t, i + Len(key), SpaceChars) + 1
                       IN  g <= Len(t) /\ t[g] \in TokenChars}
    IN  IF hits = {} THEN None
        ELSE LET g == RunEnd(t, Min(hits) + Len(key), SpaceChars) + 1
             IN  Some(SubSeq(t, g, RunEnd(t, g, TokenChars)))

\* re.search(r"\b(\d+)\b", t)
_find_int(t) ==
    LET hits == {i \in 1..Len(t) :
                    /\ t[i] \in DigitChars
                    /\ (i = 1 \/ t[i - 1] \notin WordChars)
                    /\ LET e == RunEnd(t, i, DigitChars)
                       IN  e = Len(t) \/ t[e + 1] \notin WordChars}
    IN  IF hits = {} THEN None
        ELSE Some(ToInt(SubSeq(t, Min(hits), RunEnd(t, Min(hits), DigitChars))))

\* The first digit after the first occurrence of key, or 0 when there is none:
\* where key[^0-9]*(\d+) puts the start of its group.
DigitsAfter(t, key) ==
    LET occ == {i \in 1..Len(t) : OccursAt(t, key, i)}
    IN  IF occ = {} THEN 0
        ELSE LET ds == {j \in (Min(occ) + Len(key))..Len(t) : t[j] \in DigitChars}
             IN  IF ds = {} THEN 0 ELSE Min(ds)

\* re.search(rf"{key}[^0-9]*(\d+)", t)
_find_int_after(t, key) ==
    LET d == DigitsAfter(t, key)
    IN  IF d = 0 THEN None ELSE Some(ToInt(SubSeq(t, d, RunEnd(t, d, DigitChars))))

\* re.search(rf"{key}[^0-9]*([0-9]+(?:\.[0-9]+)?)", t)
_find_float_after(t, key) ==
    LET d == DigitsAfter(t, key)
        e == RunEnd(t, d, DigitChars)
        frac == e + 2 <= Len(t) /\ t[e + 1] = "." /\ t[e + 2] \in DigitChars
    IN  IF d = 0 THEN None
        ELSE Some(ToFloat(SubSeq(t, d, e),
                          IF frac THEN SubSeq(t, e + 2, RunEnd(t, e + 2, DigitChars))
                          ELSE <<>>))

\* re.findall(r"[a-z]+", t) without the excluded words; max(words, key=len)
\* is the first of the longest.
_find_name(t, exclude) ==
    LET starts == {i \in 1..Len(t) :
                      /\ t[i] \in LowerChars
                      /\ (i = 1 \/ t[i - 1] \notin LowerChars)
                      /\ SubSeq(t, i, RunEnd(t, i, LowerChars)) \notin exclude}
        len(i) == RunEnd(t, i, LowerChars) - i + 1
    IN  IF starts = {} THEN None
        ELSE LET b == CHOOSE i \in starts :
                         \A j \in starts : len(j) < len(i) \/ (len(j) = len(i) /\ i <= j)
             IN  Some(SubSeq(t, b, RunEnd(t, b, LowerChars)))

\* Python's a or b on optional values whose present values are all truthy
OrElse(a, b) == IF a # None THEN a ELSE b


(***************************************************************************)
(* The words agent.py looks for.                                           *)
(***************************************************************************)
K_add == <<"a", "d", "d">>
K_subtract == <<"s", "u", "b", "t", "r", "a", "c", "t">>
K_minus == <<"m", "i", "n", "u", "s">>
K_remove == <<"r", "e", "m", "o", "v", "e">>
K_update == <<"u", "p", "d", "a", "t", "e">>
K_change == <<"c", "h", "a", "n", "g", "e">>
K_delete == <<"d", "e", "l", "e", "t", "e">>
K_sku == <<"s", "k", "u">>
K_code == <<"c", "o", "d", "e">>
K_price == <<"p", "r", "i", "c", "e">>
K_qty == <<"q", "t", "y">>
K_quantity == <<"q", "u", "a", "n", "t", "i", "t", "y">>
K_name == <<"n", "a", "m", "e">>
K_with == <<"w", "i", "t", "h">>
K_item == <<"i", "t", "e", "m">>
SP == <<" ">>

(***************************************************************************)
(* Actions and parse outcomes.  An Action is the dict the parser returns:  *)
(* a key that the dict lacks is None here.                                 *)
(***************************************************************************)
Action(type, sku, name, quantity, price) ==
    [type |-> type, sku |-> sku, name |-> name, quantity |-> quantity, price |-> price]

AgentParseError(msg) == [cls |-> "AgentParseError", msg |-> msg]

Parsed(a) == [exc |-> NoExc, action |-> a]
Failed(e) == [exc |-> e, action |-> None]

sku_of(t) == OrElse(_find_after(t, K_sku), _find_after(t, K_code))

\* _find_int_after(t, "qty") or _find_int_after(t, "quantity"): a 0 found
\* after "qty" is falsy and gives way to the second search.
update_quantity(t) ==
    LET q == _find_int_after(t, K_qty)
    IN  IF q # None /\ q[1] # 0 THEN q ELSE _find_int_after(t, K_quantity)

parse_add(t) ==
    LET found == _find_int(t)
        q == IF found # None /\ found[1] # 0 THEN found[1] ELSE 1
        sku == sku_of(t)
        fp == _find_float_after(t, K_price)
        price == IF fp # None THEN fp[1] ELSE 0
        nm == _find_name(t, {K_add, K_with, K_sku, K_price, K_update, K_delete, K_subtract})
        name == IF nm # None THEN nm[1] ELSE IF sku # None THEN sku[1] ELSE K_item
    IN  IF sku = None THEN Failed(AgentParseError("SKU not found"))
        ELSE Parsed(Action(Some("add"), Some(upper(sku[1])), Some(title(name)),
                           Some(q), Some(price)))

parse_subtract(t) ==
    LET found == _find_int(t)
        q == IF found # None /\ found[1] # 0 THEN found[1] ELSE 1
        sku == sku_of(t)
    IN  IF sku = None THEN Failed(AgentParseError("SKU not found for subtract"))
        ELSE Parsed(Action(Some("subtract"), Some(upper(sku[1])), None, Some(q), None))

parse_update(t) ==
    LET sku == sku_of(t)
        q == update_quantity(t)
        p == _find_float_after(t, K_price)
        nm == _find_after(t, K_name)
    IN  IF sku = None THEN Failed(AgentParseError("SKU not found for update"))
        ELSE IF q = None /\ p = None /\ nm = None
        THEN Failed(AgentParseError("Nothing to update"))
        ELSE Parsed(Action(Some("update"), Some(upper(sku[1])),
                           IF nm # None THEN Some(title(nm[1])) ELSE None, q, p))

parse_delete(t) ==
    LET sku == sku_of(t)
    IN  IF sku = None THEN Failed(AgentParseError("SKU not found for delete"))
        ELSE Parsed(Action(Some("delete"), Some(upper(sku[1])), None, None, None))

is_add(t) == startswith(t, K_add) \/ contains(t, SP \o K_add \o SP)

is_subtract(t) ==
    \/ startswith(t, K_subtract)
    \/ startswith(t, K_minus)
    \/ contains(t, SP \o K_subtract \o SP)
    \/ contains(t, SP \o K_remove \o SP)

is_update(t) ==
    \/ startswith(t, K_update)
    \/ contains(t, SP \o K_update \o SP)
    \/ contains(t, SP \o K_change \o SP)

is_delete(t) ==
    \/ startswith(t, K_delete)
    \/ contains(t, SP \o K_delete \o SP)
    \/ startswith(t, K_remove)
    \/ contains(t, SP \o K_remove \o SP \o K_sku)

_rule_based_parse(txt) ==
    LET t == strip(lower(txt))
    IN  IF is_add(t) THEN parse_add(t)
        ELSE IF is_subtract(t) THEN parse_subtract(t)
        ELSE IF is_update(t) THEN parse_update(t)
        ELSE IF is_delete(t) THEN parse_delete(t)
        ELSE Failed(AgentParseError("Action not recognized"))


(***************************************************************************)
(* The remote model.  Its reply is a sequence of lexemes: back-ticks,      *)
(* newlines, bare words and JSON documents.  A document is an object (a    *)
(* dict, as an Action) or an array.                                        *)
(***************************************************************************)
Tick == [lex |-> "tick", val |-> None]
NL == [lex |-> "nl", val |-> None]
Word == [lex |-> "word", val |-> None]
Object(a) == [lex |-> "json", val |-> [json |-> "object", dict |-> a]]
Array == [lex |-> "json", val |-> [json |-> "array", dict |-> None]]

\* res.text.strip(): leading and trailing whitespace goes
strip_space(b) ==
    LET keep == {i \in 1..Len(b) : b[i].lex # "nl"}
    IN  IF keep = {} THEN <<>>
        ELSE SubSeq(b, Min(keep), CHOOSE i \in keep : \A j \in keep : i >= j)

\* raw.strip of the back-tick: leading and trailing back-ticks go, and nothing else
strip_ticks(b) ==
    LET keep == {i \in 1..Len(b) : b[i].lex # "tick"}
    IN  IF keep = {} THEN <<>>
        ELSE SubSeq(b, Min(keep), CHOOSE i \in keep : \A j \in keep : i >= j)

\* json.loads: one document with whitespace around it, or JSONDecodeError
json_loads(b) ==
    LET body == strip_space(b)
    IN  IF Len(body) = 1 /\ body[1].lex = "json" THEN Some(body[1].val) ELSE None

AllowedTypes == {"add", "subtract", "update", "delete"}

RemoteError(cls) == [cls |-> cls, msg |-> "remote"]

\* The try block of Agent.parse: the Action it returns, or the exception
\* raised inside it.
remote_parse(reply) ==
    IF reply.raises THEN Failed(RemoteError("Exception"))
    ELSE LET data == json_loads(strip_ticks(strip_space(reply.text)))
         IN  IF data = None THEN Failed(RemoteError("JSONDecodeError"))
             ELSE IF data[1].json # "object" THEN Failed(RemoteError("AttributeError"))
             ELSE IF data[1].dict.type = None \/ data[1].dict.type[1] \notin AllowedTypes
             THEN Failed(AgentParseError("Invalid type from model"))
             ELSE Parsed(data[1].dict)

\* Agent.parse without its except branch
parse_propagate(rem, txt) ==
    IF rem.client THEN remote_parse(rem.reply) ELSE _rule_based_parse(txt)

\* Agent.parse: except Exception swallows whatever the try block raised
parse(rem, txt) ==
    IF rem.client /\ remote_parse(rem.reply).exc = NoExc
    THEN remote_parse(rem.reply)
    ELSE _rule_based_parse(txt)

(***************************************************************************)
(* The agent command's dispatch of an Action to the Store.                 *)
(***************************************************************************)
KeyError == [cls |-> "KeyError", msg |-> "missing key"]

dispatch(db, t, a) ==
    IF a.type[1] = "add"
    THEN IF a.sku = None \/ a.name = None \/ a.quantity = None \/ a.price = None
         THEN Outcome(db, KeyError, None)
         ELSE add_item(db, t, a.sku[1], a.name[1], a.quantity[1], a.price[1])
    ELSE IF a.type[1] = "subtract"
    THEN IF a.sku = None \/ a.quantity = None
         THEN Outcome(db, KeyError, None)
         ELSE subtract_quantity(db, t, a.sku[1], a.quantity[1])
    ELSE IF a.type[1] = "update"
    THEN IF a.sku = None
         THEN Outcome(db, KeyError, None)
         ELSE update_item(db, t, a.sku[1], a.name, a.quantity, a.price)
    ELSE IF a.sku = None
         THEN Outcome(db, KeyError, None)
         ELSE delete_item(db, a.sku[1])

(***************************************************************************)
(* Inputs of the model.                                                    *)
(***************************************************************************)
MaxWords == 3

Phrases ==
    <<<<"a", "d", "d">>,
       <<"r", "e", "m", "o", "v", "e">>,
       <<"s", "u", "b", "t", "r", "a", "c", "t">>,
       <<"u", "p", "d", "a", "t", "e">>,
       <<"d", "e", "l", "e", "t", "e">>,
       <<"p", "l", "e", "a", "s", "e">>,
       <<"3">>,
       <<"s", "k", "u", " ", "B", "1">>,
       <<"q", "t", "y", " ", "0">>,
       <<"q", "t", "y", " ", "2">>,
       <<"q", "u", "a", "n", "t", "i", "t", "y", " ", "0">>,
       <<"p", "r", "i", "c", "e", " ", "1", "2", ".", "5">>,
       <<"n", "a", "m", "e", " ", "p", "e", "n">>>>

RECURSIVE Join(_)
Join(ws) ==
    IF Len(ws) = 1 THEN Phrases[ws[1]]
    ELSE Join(SubSeq(ws, 1, Len(ws) - 1)) \o SP \o Phrases[ws[Len(ws)]]

Texts == {Join(ws) : ws \in UNION {[1..n -> 1..Len(Phrases)] : n \in 1..MaxWords}}

NoReply == [raises |-> FALSE, text |-> <<>>]
Raises == [raises |-> TRUE, text |-> <<>>]
Reply(b) == [raises |-> FALSE, text |-> b]
Fenced(b) == <<Tick, Tick, Tick, NL>> \o b \o <<NL, Tick, Tick, Tick>>
FencedJson(b) == <<Tick, Tick, Tick, Word, NL>> \o b \o <<NL, Tick, Tick, Tick>>

Docs ==
    { Object(Action(Some("add"), Some(S_b1), Some(S_Ink), Some(2), Some(150))),
      Object(Action(Some("add"), None, None, None, None)),
      Object(Action(Some("subtract"), Some(S_B1), None, Some(0 - 1), None)),
      Object(Action(Some("delete"), Some(<<>>), None, None, None)),
      Object(Action(Some("list"), None, None, None, None)),
      Array }

Replies ==
    {Raises, Reply(<<Word>>)}
    \cup {Reply(<<d>>) : d \in Docs}
    \cup {Reply(Fenced(<<Object(Action(Some("delete"), Some(S_B1), None, None, None))>>)),
          Reply(FencedJson(<<Object(Action(Some("delete"), Some(S_B1), None, None, None))>>))}

Remotes == {[client |-> FALSE, reply |-> NoReply]} \cup {[client |-> TRUE, reply |-> r] : r \in Replies}

(***************************************************************************)
(* The record of the last Store call: the method, whether its sku had a    *)
(* row when it was called, the exception it raised and what it returned.   *)
(***************************************************************************)
Call(op, existed, o) == [op |-> op, existed |-> existed, exc |-> o.exc, ret |-> o.ret]

NoCall == [op |-> "none", existed |-> FALSE, exc |-> NoExc, ret |-> None]

NoParse == [exc |-> NoExc, action |-> None]

Bounded(db) == \A k \in DOMAIN db : db[k].quantity <= MaxQty

(***************************************************************************)
(* The Store under any sequence of calls.                                  *)
(***************************************************************************)
Init ==
    /\ items = EmptyDb
    /\ now = 0
    /\ last = NoCall
    /\ text = <<>>
    /\ remote = [client |-> FALSE, reply |-> NoReply]
    /\ pc = "store"
    /\ action = NoParse

AddItem(sku, name, quantity, price) ==
    LET o == add_item(items, now, sku, name, quantity, price)
    IN  /\ Bounded(o.db)
        /\ items' = o.db
        /\ last' = Call("add", sku \in DOMAIN items, o)
        /\ UNCHANGED <<now, text, remote, pc, action>>

AddOrUpdate(sku, name, quantity, price) ==
    LET o == add_or_update(items, now, sku, name, quantity, price)
    IN  /\ Bounded(o.db)
        /\ items' = o.db
        /\ last' = Call("add_or_update", sku \in DOMAIN items, o)
        /\ UNCHANGED <<now, text, remote, pc, action>>

SubtractQuantity(sku, qty) ==
    LET o == subtract_quantity(items, now, sku, qty)
    IN  /\ Bounded(o.db)
        /\ items' = o.db
        /\ last' = Call("subtract", sku \in DOMAIN items, o)
        /\ UNCHANGED <<now, text, remote, pc, action>>

UpdateItem(sku, name, quantity, price) ==
    LET o == update_item(items, now, sku, name, quantity, price)
    IN  /\ Bounded(o.db)
        /\ items' = o.db
        /\ last' = Call("update", sku \in DOMAIN items, o)
        /\ UNCHANGED <<now, text, remote, pc, action>>

DeleteItem(sku) ==
    LET o == delete_item(items, sku)
    IN  /\ items' = o.db
        /\ last' = Call("delete", sku \in DOMAIN items, o)
        /\ UNCHANGED <<now, text, remote, pc, action>>

\* time.strftime('%Y-%m-%d %H:%M:%S') moves on between calls
ClockTick ==
    /\ now < MaxClock
    /\ now' = now + 1
    /\ UNCHANGED <<items, last, text, remote, pc, action>>

Next ==
    \/ \E sku \in Skus, a \in ItemArgs : AddItem(sku, a[1], a[2], a[3])
    \/ \E sku \in Skus, a \in ItemArgs : AddOrUpdate(sku, a[1], a[2], a[3])
    \/ \E sku \in Skus, qty \in QtyArgs : SubtractQuantity(sku, qty)
    \/ \E sku \in Skus, a \in UpdateArgs : UpdateItem(sku, a[1], a[2], a[3])
    \/ \E sku \in Skus : DeleteItem(sku)
    \/ ClockTick

Spec == Init /\ [][Next]_vars

(***************************************************************************)
(* One run of the agent command on a store that holds B1.                  *)
(***************************************************************************)
AgentInit ==
    /\ items = Put(EmptyDb, S_B1, Row(S_Pen, MaxQty, 150, 0))
    /\ now = MaxClock
    /\ last = NoCall
    /\ text \in Texts
    /\ remote \in Remotes
    /\ pc = "parse"
    /\ action = NoParse

\* action = ag.parse(command); an AgentParseError ends the run
AgentParse ==
    /\ pc = "parse"
    /\ action' = parse(remote, text)
    /\ pc' = IF action'.exc = NoExc THEN "dispatch" ELSE "done"
    /\ UNCHANGED <<items, now, last, text, remote>>

AgentDispatch ==
    /\ pc = "dispatch"
    /\ LET a == action.action
           o == dispatch(items, now, a)
       IN  /\ items' = o.db
           /\ last' = Call(a.type[1], a.sku # None /\ a.sku[1] \in DOMAIN items, o)
    /\ pc' = "done"
    /\ UNCHANGED <<now, text, remote, action>>

AgentNext == AgentParse \/ AgentDispatch

AgentSpec == AgentInit /\ [][AgentNext]_vars


(***************************************************************************)
(* Properties of the Store, checked under Spec.                            *)
(***************************************************************************)
\* C1: after any sequence of add, upsert, subtract, update and delete calls
\* with arbitrary arguments, every stored item has quantity >= 0 and
\* price >= 0.
C1_NonNegative ==
    \A k \in DOMAIN items : items[k].quantity >= 0 /\ items[k].price >= 0

\* a call with a negative argument was rejected by the schema while rows exist
C1_Witness == last.exc = IntegrityError /\ items # EmptyDb

\* C2: subtract_quantity on an existing sku fails with the insufficient-stock
\* error and leaves the quantity alone when qty exceeds the stock; otherwise
\* it succeeds, returns old - qty and stores exactly old - qty.
C2_Subtract ==
    [][\A sku \in Skus, qty \in QtyArgs :
          (last'.op = "subtract" /\ sku \in DOMAIN items /\ SubtractQuantity(sku, qty)) =>
              LET old == items[sku].quantity
              IN  IF qty > old
                  THEN /\ last'.exc = InsufficientStockError
                       /\ items'[sku].quantity = old
                  ELSE /\ last'.exc = NoExc
                       /\ last'.ret = Some(old - qty)
                       /\ items'[sku].quantity = old - qty]_vars

\* a subtraction that emptied the stock, after which a further one was refused
C2_Witness ==
    /\ last.op = "subtract"
    /\ last.exc = InsufficientStockError
    /\ \E k \in DOMAIN items : items[k].quantity = 0 /\ items[k].updated_at = MaxClock

\* C3: add_item on a sku that exists fails with the duplicate-key error and
\* leaves every row as it was.
C3_AddExisting ==
    [][\A sku \in Skus, a \in ItemArgs :
          (last'.op = "add" /\ sku \in DOMAIN items /\ AddItem(sku, a[1], a[2], a[3])) =>
              (last'.exc = DuplicateKeyError /\ items' = items)]_vars

C3_Witness == last.op = "add" /\ last.existed /\ last.exc = DuplicateKeyError /\ now = MaxClock

\* C4: update_item with name, quantity and price all absent returns without
\* error and leaves the whole store unchanged, whether or not the sku exists.
C4_UpdateNothing ==
    [][\A sku \in Skus :
          (last'.op = "update" /\ UpdateItem(sku, None, None, None)) =>
              (last'.exc = NoExc /\ items' = items)]_vars

\* an update of a sku that has no row returned normally, in a store with rows
C4_Witness ==
    /\ last.op = "update"
    /\ ~last.existed
    /\ last.exc = NoExc
    /\ \E k \in DOMAIN items : items[k].updated_at < now

\* C5: add_or_update with quantity >= 0 and price >= 0 succeeds whether or not
\* the sku exists, get_item then holds exactly that name, quantity and price,
\* and an identical second call succeeds and changes no name, quantity or
\* price.
C5_Upsert ==
    [][\A sku \in Skus, a \in ItemArgs :
          (/\ last'.op = "add_or_update"
           /\ a[2] >= 0 /\ a[3] >= 0
           /\ AddOrUpdate(sku, a[1], a[2], a[3])) =>
              /\ last'.exc = NoExc
              /\ get_item(items', sku) # None
              /\ get_item(items', sku)[1].name = a[1]
              /\ get_item(items', sku)[1].quantity = a[2]
              /\ get_item(items', sku)[1].price = a[3]
              /\ \A t \in now..MaxClock :
                    LET again == add_or_update(items', t, sku, a[1], a[2], a[3])
                    IN  /\ again.exc = NoExc
                        /\ DOMAIN again.db = DOMAIN items'
                        /\ \A k \in DOMAIN items' :
                              /\ again.db[k].name = items'[k].name
                              /\ again.db[k].quantity = items'[k].quantity
                              /\ again.db[k].price = items'[k].price]_vars

\* an upsert of a sku that already had a row went through
C5_Witness == last.op = "add_or_update" /\ last.existed /\ last.exc = NoExc

(***************************************************************************)
(* Properties of the parser and the agent command, checked under AgentSpec.*)
(***************************************************************************)
RemoteRaises == remote.client /\ remote.reply.raises

RemoteUnparseable ==
    /\ remote.client
    /\ ~remote.reply.raises
    /\ json_loads(strip_ticks(strip_space(remote.reply.text))) = None

RemoteBadType ==
    /\ remote.client
    /\ ~remote.reply.raises
    /\ LET data == json_loads(strip_ticks(strip_space(remote.reply.text)))
       IN  /\ data # None
           /\ \/ data[1].json # "object"
              \/ data[1].dict.type = None
              \/ data[1].dict.type[1] \notin AllowedTypes

\* C6: when the remote call raises, returns a blob that cannot be parsed, or
\* returns a type outside add, subtract, update, delete, parse gives exactly
\* the outcome of the rule-based strategy for the same text, and no remote
\* failure reaches the caller.
C6_Fallback ==
    (pc # "parse" /\ (RemoteRaises \/ RemoteUnparseable \/ RemoteBadType)) =>
        /\ action = _rule_based_parse(text)
        /\ action.exc.cls \in {"none", "AgentParseError"}
        /\ action.exc.msg # "Invalid type from model"

\* a fenced reply that does not parse fell back to a rule-based subtract,
\* which the store carried out
C6_Witness ==
    /\ pc = "done"
    /\ RemoteUnparseable
    /\ Len(remote.reply.text) > 1
    /\ action.exc = NoExc
    /\ action.action.type = Some("subtract")
    /\ last.exc = NoExc

Complete(a) ==
    /\ a.sku # None
    /\ a.type[1] = "add" => (a.name # None /\ a.quantity # None /\ a.price # None)
    /\ a.type[1] = "subtract" => (a.quantity # None /\ a.quantity[1] > 0)
    /\ a.type[1] = "update" => (a.name # None \/ a.quantity # None \/ a.price # None)

\* C7: every Action parse returns is structurally complete for its type, so
\* the dispatcher never reads a field the Action lacks.
C7_Complete ==
    /\ (pc # "parse" /\ action.exc = NoExc) => Complete(action.action)
    /\ pc = "done" => last.exc # KeyError

\* C8: every Action handed to the dispatch has a non-empty, upper-case sku,
\* so every row the agent command creates has an upper-case sku.
C8_UpperSku ==
    /\ (pc # "parse" /\ action.exc = NoExc /\ action.action.sku # None) =>
           (action.action.sku[1] # <<>> /\ action.action.sku[1] = upper(action.action.sku[1]))
    /\ \A k \in DOMAIN items : k = upper(k)

\* the intent an outcome of the rule-based strategy was classified as
IntentOf(o) ==
    IF o.exc = NoExc THEN o.action.type[1]
    ELSE IF o.exc.msg = "SKU not found" THEN "add"
    ELSE IF o.exc.msg = "SKU not found for subtract" THEN "subtract"
    ELSE IF o.exc.msg \in {"SKU not found for update", "Nothing to update"} THEN "update"
    ELSE IF o.exc.msg = "SKU not found for delete" THEN "delete"
    ELSE "none"

\* a keyword that leads the text or is embedded in it
HasKeyword(t, k) == startswith(t, k) \/ contains(t, SP \o k \o SP)

\* the precedence as documented: remove is a subtract verb unless the text has
\* no quantity and remove is followed by a sku token
DocumentedIntent(t) ==
    LET remove_deletes == _find_int(t) = None /\ contains(t, K_remove \o SP \o K_sku)
    IN  IF HasKeyword(t, K_add) THEN "add"
        ELSE IF \/ HasKeyword(t, K_subtract)
                \/ HasKeyword(t, K_minus)
                \/ (HasKeyword(t, K_remove) /\ ~remove_deletes)
        THEN "subtract"
        ELSE IF HasKeyword(t, K_update) \/ HasKeyword(t, K_change) THEN "update"
        ELSE IF HasKeyword(t, K_delete) \/ HasKeyword(t, K_remove) THEN "delete"
        ELSE "none"

T_remove_3_sku_B1 ==
    <<"r", "e", "m", "o", "v", "e", " ", "3", " ", "s", "k", "u", " ", "B", "1">>
T_remove_sku_B1 ==
    <<"r", "e", "m", "o", "v", "e", " ", "s", "k", "u", " ", "B", "1">>

\* C9: the rule-based strategy classifies by add > subtract > update > delete,
\* with remove a subtract unless it has no quantity and is followed by sku:
\* "remove 3 sku B1" subtracts 3 and "remove sku B1" deletes.
C9_Precedence ==
    (pc # "parse" /\ ~remote.client) =>
        /\ IntentOf(action) = DocumentedIntent(strip(lower(text)))
        /\ text = T_remove_3_sku_B1 =>
              action = Parsed(Action(Some("subtract"), Some(S_B1), None, Some(3), None))
        /\ text = T_remove_sku_B1 =>
              action = Parsed(Action(Some("delete"), Some(S_B1), None, None, None))

\* C10: a rule-based update that names a sku carries quantity N when an
\* integer N (0 included) follows qty or quantity, price P when a decimal
\* follows price, and a name when a word follows name; ParseError is raised
\* exactly when none of the three is in the text.
C10_UpdateFields ==
    LET t == strip(lower(text))
        q1 == _find_int_after(t, K_qty)
        q == IF q1 # None THEN q1 ELSE _find_int_after(t, K_quantity)
        p == _find_float_after(t, K_price)
        nm == _find_after(t, K_name)
    IN  (/\ pc # "parse"
         /\ ~remote.client
         /\ ~is_add(t) /\ ~is_subtract(t) /\ is_update(t)
         /\ sku_of(t) # None) =>
            /\ action.exc # NoExc <=> (q = None /\ p = None /\ nm = None)
            /\ action.exc = NoExc =>
                  /\ q # None => action.action.quantity = q
                  /\ p # None => action.action.price = p
                  /\ nm # None => action.action.name = Some(title(nm[1]))


====
